---- MODULE Spec2Model ----
(***************************************************************************)
(* MockupStorage (server/storage-mockup.ts): the seeded generator, the     *)
(* three insertion-ordered Map collections and the storage operations.     *)
(*                                                                         *)
(* Representation                                                          *)
(*   - an instant is a whole number of hours since the Unix epoch (UTC);   *)
(*     the code's millisecond offsets 9*60*60*1000 and 18*60*60*1000 are   *)
(*     9 and 18 of these units;                                            *)
(*   - a YYYY-MM-DD string is the number of its day since the epoch: the   *)
(*     zero-padded ISO form orders as the day numbers do, and              *)
(*     new Date("YYYY-MM-DD") is UTC midnight of that day;                 *)
(*   - a JavaScript Map is the sequence of its values in insertion order   *)
(*     (every value carries its key: id for customers and batches, date    *)
(*     for daily stats);                                                   *)
(*   - a template-literal string is the tuple of its parts;                *)
(*   - SeededRandom.next() returns the rational u / 2147483646, carried    *)
(*     as its numerator u; floors of products with it are computed         *)
(*     exactly.                                                            *)
(***************************************************************************)
EXTENDS Integers, Sequences, FiniteSets, TLC

(***************************************************************************)
(* Program constants                                                       *)
(***************************************************************************)
Modulus == 2147483647
Multiplier == 16807
SeedFix == 2147483646
NextDivisor == 2147483646
DefaultSeed == 12345
RosterSize == 100
DaysOfHistory == 30
CustomersMin == 150
CustomersMax == 200
RatePctMin == 65
RatePctMax == 85
PctConfirmed == 60
PctNotConfirmed == 15
PctQuestions == 8
PctOther == 17
SentHour == 9
ReceivedHour == 18
DefaultLimit == 50

(***************************************************************************)
(* Bounds of the model                                                     *)
(***************************************************************************)
\* the UTC day on which the modelled process is started
BaseDay == 19737
\* how many days before BaseDay the daylight-saving zone changed its offset
DstAgo == 10
\* state-changing calls (and clock days) explored after construction
MaxOps == 2
\* how many numbers are drawn from a generator watched on its own
MaxCalls == 10
\* how many state-changing steps are taken when all operations are mixed
MaxStoreOps == 1

MaxConfigCalls == 2

None == [undefined |-> TRUE]

(***************************************************************************)
(* SeededRandom                                                            *)
(***************************************************************************)
\* JavaScript %: the result takes the sign of the dividend
JsRem(a, m) == IF a >= 0 THEN a % m ELSE -((-a) % m)

\* a bug: the seed taken modulo Modulus without the shift of a result <= 0
SeededRandomInitNoShift(seed) == JsRem(seed, Modulus)

\* constructor(seed)
SeededRandomInit(seed) ==
    LET s == JsRem(seed, Modulus)
    IN  IF s <= 0 THEN s + SeedFix ELSE s

\* x + y modulo Modulus for 0 <= x, y < Modulus, without leaving 32 bits
AddMod(x, y) == IF x >= Modulus - y THEN x - (Modulus - y) ELSE x + y

\* a bug: the product without its low 16 bits, as too short a mantissa
\* would keep it
SeedProductRounded(s) ==
    LET lowPart  == (s % 65536) * Multiplier
        highPart == (s \div 65536) * Multiplier
    IN  [hi |-> highPart + (lowPart \div 65536), lo |-> 0]

\* this.seed * 16807 as hi * 2^16 + lo
SeedProduct(s) ==
    LET lowPart  == (s % 65536) * Multiplier
        highPart == (s \div 65536) * Multiplier
    IN  [hi |-> highPart + (lowPart \div 65536), lo |-> lowPart % 65536]

\* (hi * 2^16 + lo) % 2147483647, using 2^31 = 1 (mod 2147483647)
WideRem(w) ==
    LET h1 == w.hi \div 32768
        h0 == w.hi % 32768
    IN  AddMod(AddMod(h1 % Modulus, (h0 * 65536) % Modulus), w.lo)

\* the state after one next(): this.seed = (this.seed * 16807) % 2147483647
NextSeed(s) == WideRem(SeedProduct(s))

\* the numerator of the value next() returns from the new state
NextValue(s2) == s2 - 1

\* the least u with floor(u * n / NextDivisor) >= k
ScaleThreshold(k, n) ==
    LET q == NextDivisor \div n
        r == NextDivisor % n
    IN  k * q + ((k * r + n - 1) \div n)

RECURSIVE ScaleDown(_, _, _)
ScaleDown(k, u, n) ==
    IF k > 0 /\ ScaleThreshold(k, n) > u THEN ScaleDown(k - 1, u, n) ELSE k

\* a bug: the product rounded up instead of down
CeilScaled(u, n) == ScaleDown(u \div (NextDivisor \div n), u, n) + 1

\* Math.floor((u / 2147483646) * n) for 0 <= u < 2147483646, 1 <= n
FloorScaled(u, n) == ScaleDown(u \div (NextDivisor \div n), u, n)

\* a bug: min not added
NextIntValueFromZero(s2, min, max) == FloorScaled(NextValue(s2), max - min + 1)

\* nextInt(min, max) evaluated on the state s2 that next() has just produced
NextIntValue(s2, min, max) == FloorScaled(NextValue(s2), max - min + 1) + min

(***************************************************************************)
(* Date: local time, setDate, toISOString                                  *)
(***************************************************************************)
\* a time zone: offset `before` up to the instant `at`, `after` from it on
UtcZone == [before |-> 0, after |-> 0, at |-> 0]
FixedZone == [before |-> 9, after |-> 9, at |-> 0]
DstZone == [before |-> 0, after |-> 1, at |-> (BaseDay - DstAgo) * 24 + 1]

ZoneOffset(z, t) == IF t < z.at THEN z.before ELSE z.after

\* the local wall-clock reading of instant t
LocalTime(z, t) == t + ZoneOffset(z, t)

\* the instant of a local wall-clock reading (the earlier one when the
\* reading repeats, the offset before the change when it is skipped)
UtcOfLocal(z, l) ==
    IF l - z.before < z.at THEN l - z.before
    ELSE IF l - z.after >= z.at THEN l - z.after
    ELSE l - z.before

\* d = new Date(t); d.setDate(d.getDate() - k)
SetDateBack(z, t, k) == UtcOfLocal(z, LocalTime(z, t) - 24 * k)

\* d.toISOString().split('T')[0]
IsoDate(t) == t \div 24

\* d.toLocaleDateString('en-US', {month: 'short', day: 'numeric'})
LocaleDate(z, t) == LocalTime(z, t) \div 24

(***************************************************************************)
(* Map operations                                                          *)
(***************************************************************************)
Range(s) == {s[i] : i \in 1..Len(s)}

\* the position of the entry with the given key, 0 when there is none
IndexOfId(m, id) ==
    IF \E i \in 1..Len(m) : m[i].id = id
    THEN CHOOSE i \in 1..Len(m) : m[i].id = id
    ELSE 0

IndexOfDate(m, date) ==
    IF \E i \in 1..Len(m) : m[i].date = date
    THEN CHOOSE i \in 1..Len(m) : m[i].date = date
    ELSE 0

\* Map.set keyed by id: an existing key keeps its position
SetById(m, v) ==
    LET i == IndexOfId(m, v.id)
    IN  IF i = 0 THEN Append(m, v) ELSE [m EXCEPT ![i] = v]

\* a bug: an entry already present is kept, not replaced
SetByDateKeepFirst(m, v) ==
    IF IndexOfDate(m, v.date) = 0 THEN Append(m, v) ELSE m

\* a bug: every set adds an entry, also for a date already present
SetByDateAppend(m, v) == Append(m, v)

\* Map.set keyed by date (the daily-stats map)
SetByDate(m, v) ==
    LET i == IndexOfDate(m, v.date)
    IN  IF i = 0 THEN Append(m, v) ELSE [m EXCEPT ![i] = v]

\* a bug: a missing key answered with the first entry
GetByIdOrFirst(m, id) ==
    LET i == IndexOfId(m, id)
    IN  IF i = 0 THEN m[1] ELSE m[i]

\* Map.get
GetById(m, id) ==
    LET i == IndexOfId(m, id)
    IN  IF i = 0 THEN None ELSE m[i]

GetByDate(m, date) ==
    LET i == IndexOfDate(m, date)
    IN  IF i = 0 THEN None ELSE m[i]

\* Array.from(map.values()).find(c => c.phone === phone)
FindByPhone(m, phone) ==
    IF \E i \in 1..Len(m) : m[i].phone = phone
    THEN m[CHOOSE i \in 1..Len(m) :
               /\ m[i].phone = phone
               /\ \A j \in 1..(i - 1) : m[j].phone # phone]
    ELSE None

(***************************************************************************)
(* generateMockData                                                        *)
(***************************************************************************)
\* the body of the roster loop for customer i; s is the generator state
GenerateCustomer(i, st) ==
    LET s1 == NextSeed(st.rng)
        s2 == NextSeed(s1)
        s3 == NextSeed(s2)
        customer ==
            [id    |-> <<"customer", i>>,
             name  |-> <<i % 10, i % 10>>,
             phone |-> <<NextIntValue(s1, 70, 90),
                         NextIntValue(s2, 1000, 9999),
                         NextIntValue(s3, 1000, 9999)>>]
    IN  [rng |-> s3, customers |-> SetById(st.customers, customer)]

\* the roster loop for i = lo .. hi - 1, in order (split in halves)
RECURSIVE GenerateCustomers(_, _, _)
GenerateCustomers(lo, hi, st) ==
    IF st.rng = 0 \/ lo >= hi THEN st
    ELSE IF hi = lo + 1 THEN GenerateCustomer(lo, st)
    ELSE GenerateCustomers((lo + hi) \div 2, hi,
                           GenerateCustomers(lo, (lo + hi) \div 2, st))

\* the least u with floor(customerCount * responseRate) >= k, where
\* responseRate = RatePctMin/100 + (u / NextDivisor) * (RatePctMax - RatePctMin)/100
ResponseThreshold(k, customerCount) ==
    LET c == 100 * k - RatePctMin * customerCount
        n == (RatePctMax - RatePctMin) * customerCount
    IN  IF c <= 0 THEN 0
        ELSE c * (NextDivisor \div n) + ((c * (NextDivisor % n) + n - 1) \div n)

\* Math.floor(customerCount * responseRate) for the draw u
TotalResponses(customerCount, u) ==
    LET lo == (RatePctMin * customerCount) \div 100
        hi == (RatePctMax * customerCount) \div 100
        ok == {k \in lo..hi : ResponseThreshold(k, customerCount) <= u}
    IN  CHOOSE k \in ok : \A j \in ok : j <= k

\* Math.floor(totalResponses * share) for a share of pct hundredths
CategoryCount(totalResponses, pct) == (totalResponses * pct) \div 100

\* a bug: the last category multiplied out like the other three
OtherCountByShare(totalResponses, confirmed, notConfirmed, questions) ==
    CategoryCount(totalResponses, PctOther)

\* other: what the three floors leave of totalResponses
OtherCount(totalResponses, confirmed, notConfirmed, questions) ==
    totalResponses - confirmed - notConfirmed - questions

\* a bug: the operands the wrong way round
PendingCountSwapped(customerCount, totalResponses) == totalResponses - customerCount

\* pending of the day's stats
PendingCount(customerCount, totalResponses) == customerCount - totalResponses

\* a bug: the hours not added
CreatedAtOfDate(date, hours) == date

\* new Date(date.getTime() + hours * 60 * 60 * 1000)
CreatedAt(date, hours) == date + hours

\* the body of the per-day loop for dayOffset
GenerateDay(z, today, dayOffset, st) ==
    LET date == SetDateBack(z, today, dayOffset)
        dateStr == IsoDate(date)
        s1 == NextSeed(st.rng)
        customerCount == NextIntValue(s1, CustomersMin, CustomersMax)
        sentBatch ==
            [id |-> <<"sent", dateStr>>, date |-> dateStr, type |-> "sent",
             fileName |-> <<"delivery_confirmations", dateStr>>,
             channel |-> "LINE OA", customerCount |-> customerCount,
             confirmed |-> 0, notConfirmed |-> 0, questions |-> 0, other |-> 0,
             createdAt |-> CreatedAt(date, SentHour)]
        s2 == NextSeed(s1)
        totalResponses == TotalResponses(customerCount, NextValue(s2))
        confirmed == CategoryCount(totalResponses, PctConfirmed)
        notConfirmed == CategoryCount(totalResponses, PctNotConfirmed)
        questions == CategoryCount(totalResponses, PctQuestions)
        other == OtherCount(totalResponses, confirmed, notConfirmed, questions)
        receivedBatch ==
            [id |-> <<"received", dateStr>>, date |-> dateStr, type |-> "received",
             fileName |-> <<"delivery_responses", dateStr>>,
             channel |-> "LINE OA", customerCount |-> totalResponses,
             confirmed |-> confirmed, notConfirmed |-> notConfirmed,
             questions |-> questions, other |-> other,
             createdAt |-> CreatedAt(date, ReceivedHour)]
        stats ==
            [id |-> <<"stats", dateStr>>, date |-> dateStr,
             totalSent |-> customerCount, totalReceived |-> totalResponses,
             confirmed |-> confirmed, notConfirmed |-> notConfirmed,
             questions |-> questions, other |-> other,
             pending |-> PendingCount(customerCount, totalResponses)]
    IN  [rng |-> s2,
         batches |-> SetById(SetById(st.batches, sentBatch), receivedBatch),
         dailyStats |-> SetByDate(st.dailyStats, stats)]

\* the per-day loop for dayOffset = lo .. hi - 1, in order (split in halves)
RECURSIVE GenerateDays(_, _, _, _, _)
GenerateDays(z, today, lo, hi, st) ==
    IF st.rng = 0 \/ lo >= hi THEN st
    ELSE IF hi = lo + 1 THEN GenerateDay(z, today, lo, st)
    ELSE GenerateDays(z, today, (lo + hi) \div 2, hi,
                      GenerateDays(z, today, lo, (lo + hi) \div 2, st))

\* new MockupStorage(seed) at instant today in zone z
GenerateMockData(z, today, seed0) ==
    LET c == GenerateCustomers(0, RosterSize,
                 [rng |-> SeededRandomInit(seed0), customers |-> <<>>])
        d == GenerateDays(z, today, 0, DaysOfHistory,
                 [rng |-> c.rng, batches |-> <<>>, dailyStats |-> <<>>])
    IN  [seed |-> seed0, rng |-> d.rng, customers |-> c.customers,
         batches |-> d.batches, dailyStats |-> d.dailyStats]

(***************************************************************************)
(* JavaScript values                                                       *)
(***************************************************************************)
\* o.f || 0 for an optional numeric property f of o
OrZero(o, f) == IF f \in DOMAIN o THEN o[f] ELSE 0

\* {...a, ...b}
Spread(a, b) ==
    [f \in (DOMAIN a) \cup (DOMAIN b) |-> IF f \in DOMAIN b THEN b[f] ELSE a[f]]

\* Array.prototype.slice(start, end)
SliceIndex(len, k) ==
    IF k < 0 THEN (IF len + k > 0 THEN len + k ELSE 0)
    ELSE (IF k < len THEN k ELSE len)

\* a bug: the end index taken as inclusive
JsSliceInclusive(s, start, end) ==
    LET from == SliceIndex(Len(s), start)
        to   == SliceIndex(Len(s), end + 1)
    IN  IF to > from THEN SubSeq(s, from + 1, to) ELSE <<>>

JsSlice(s, start, end) ==
    LET from == SliceIndex(Len(s), start)
        to   == SliceIndex(Len(s), end)
    IN  IF to > from THEN SubSeq(s, from + 1, to) ELSE <<>>

\* new Date(dateStr).getTime()
DateTime(dateStr) == dateStr * 24

(***************************************************************************)
(* getBatches                                                              *)
(***************************************************************************)
\* the filter steps of getBatches
TypeFilter(bs, filters) ==
    IF "type" \in DOMAIN filters /\ filters.type # "" /\ filters.type # "all"
    THEN SelectSeq(bs, LAMBDA b : b.type = filters.type)
    ELSE bs

DateFromFilter(bs, filters) ==
    IF "dateFrom" \in DOMAIN filters
    THEN SelectSeq(bs, LAMBDA b : b.date >= filters.dateFrom)
    ELSE bs

\* a bug: the upper bound taken as exclusive
DateToFilterExclusive(bs, filters) ==
    IF "dateTo" \in DOMAIN filters
    THEN SelectSeq(bs, LAMBDA b : b.date < filters.dateTo)
    ELSE bs

DateToFilter(bs, filters) ==
    IF "dateTo" \in DOMAIN filters
    THEN SelectSeq(bs, LAMBDA b : b.date <= filters.dateTo)
    ELSE bs

\* the comparator of the sort: newest first
CompareDateDesc(a, b) == DateTime(b.date) - DateTime(a.date)

\* allBatches.sort(comparator), a stable sort: x moves before y only when
\* the comparator is negative, so batches that compare equal keep their order
SortByDateDesc(s) == SortSeq(s, LAMBDA x, y : CompareDateDesc(x, y) < 0)

\* filters.limit || 50 and filters.offset || 0
LimitOf(filters) ==
    IF "limit" \in DOMAIN filters /\ filters.limit # 0 THEN filters.limit ELSE DefaultLimit

OffsetOf(filters) ==
    IF "offset" \in DOMAIN filters THEN filters.offset ELSE 0

\* the summary added to a received batch
WithSummary(batch) ==
    IF batch.type = "received"
    THEN Spread(batch, [totalResponses |->
            batch.confirmed + batch.notConfirmed + batch.questions + batch.other])
    ELSE batch

\* the batches left by the three filter steps, in map order
SelectBatches(bs, filters) ==
    DateToFilter(DateFromFilter(TypeFilter(bs, filters), filters), filters)

IdsOf(bs) == [i \in 1..Len(bs) |-> bs[i].id]

\* a bug: total counted on the page instead of on the filtered set
GetBatchesTotalOfPage(bs, filters) ==
    LET selected == SelectBatches(bs, filters)
        allBatches == SortByDateDesc(selected)
        paginatedBatches ==
            JsSlice(allBatches, OffsetOf(filters), OffsetOf(filters) + LimitOf(filters))
    IN  [batches |-> [i \in 1..Len(paginatedBatches) |-> WithSummary(paginatedBatches[i])],
         total |-> Len(paginatedBatches),
         selected |-> IdsOf(selected)]

\* getBatches(filters) on the batch map bs; selected records which batches
\* allBatches holds when the filter steps are done
GetBatches(bs, filters) ==
    LET selected == SelectBatches(bs, filters)
        allBatches == SortByDateDesc(selected)
        total == Len(allBatches)
        limit == LimitOf(filters)
        offset == OffsetOf(filters)
        paginatedBatches == JsSlice(allBatches, offset, offset + limit)
    IN  [batches |-> [i \in 1..Len(paginatedBatches) |-> WithSummary(paginatedBatches[i])],
         total |-> total,
         selected |-> IdsOf(selected)]

(***************************************************************************)
(* deleteBatchesOlderThan, getChartData                                    *)
(***************************************************************************)
\* cutoffStr of deleteBatchesOlderThan(days)
CutoffStr(z, t, days) == IsoDate(SetDateBack(z, t, days))

\* the ids collected by the forEach pass
EntriesToDelete(bs, cutoffStr) ==
    LET old == SelectSeq(bs, LAMBDA b : b.date < cutoffStr)
    IN  [i \in 1..Len(old) |-> old[i].id]

\* the map after the delete pass
DeleteEntries(bs, ids) ==
    SelectSeq(bs, LAMBDA b : b.id \notin Range(ids))

\* one pass of the getChartData loop, for the day i days back
ChartEntry(z, t, ds, i) ==
    LET date == SetDateBack(z, t, i)
        stats == GetByDate(ds, IsoDate(date))
    IN  [date |-> LocaleDate(z, date),
         sent |-> IF stats = None THEN 0 ELSE stats.totalSent,
         received |-> IF stats = None THEN 0 ELSE stats.totalReceived]

\* getChartData(days): i runs from days - 1 down to 0
GetChartData(z, t, ds, days) ==
    [j \in 1..(IF days > 0 THEN days ELSE 0) |-> ChartEntry(z, t, ds, days - j)]

(***************************************************************************)
(* getDashboardMetrics                                                     *)
(***************************************************************************)
RECURSIVE Gcd(_, _)
Gcd(a, b) == IF b = 0 THEN a ELSE Gcd(b, a % b)

\* a number that need not be whole, as a fraction in lowest terms
Ratio(n, d) == [num |-> n \div Gcd(n, d), den |-> d \div Gcd(n, d)]

\* (totalReceived / totalSent) * 100, or 0: the quotient is kept as it is
ResponseRate(stats) ==
    IF stats.totalSent > 0
    THEN Ratio(stats.totalReceived * 100, stats.totalSent)
    ELSE Ratio(0, 1)

\* Array.from(this.dailyStats.keys())
KeysOf(ds) == [i \in 1..Len(ds) |-> ds[i].date]

\* a bug: the keys left in insertion order, the first one taken as latest
KeysAsInserted(keys) == keys

\* keys.sort().reverse(): date strings in descending order
SortedDatesReversed(keys) == SortSeq(keys, LAMBDA x, y : x > y)

\* the metrics object returned when no record is found
EmptyMetrics(today) ==
    [date |-> today, totalSent |-> 0, totalReceived |-> 0, confirmed |-> 0,
     notConfirmed |-> 0, questions |-> 0, other |-> 0, pending |-> 0,
     responseRate |-> Ratio(0, 1)]

\* getDashboardMetrics() on the stats map ds when toISOString gives today
GetDashboardMetrics(ds, today) ==
    LET todayStats == GetByDate(ds, today)
        sortedDates == SortedDatesReversed(KeysOf(ds))
        latestStats ==
            IF todayStats # None THEN todayStats
            ELSE IF Len(sortedDates) > 0 THEN GetByDate(ds, sortedDates[1])
            ELSE None
    IN  IF latestStats = None THEN EmptyMetrics(today)
        ELSE [date |-> latestStats.date,
              totalSent |-> latestStats.totalSent,
              totalReceived |-> latestStats.totalReceived,
              confirmed |-> latestStats.confirmed,
              notConfirmed |-> latestStats.notConfirmed,
              questions |-> latestStats.questions,
              other |-> latestStats.other,
              pending |-> latestStats.pending,
              responseRate |-> ResponseRate(latestStats)]

\* getCategoryData(): the four categories of the dashboard's metrics
GetCategoryData(ds, today) ==
    LET metrics == GetDashboardMetrics(ds, today)
    IN  << [name |-> "Confirmed", value |-> metrics.confirmed, color |-> "#10b981"],
           [name |-> "Not Confirmed", value |-> metrics.notConfirmed, color |-> "#ef4444"],
           [name |-> "Question", value |-> metrics.questions, color |-> "#8b5cf6"],
           [name |-> "Other", value |-> metrics.other, color |-> "#6b7280"] >>

\* getDailyStatsRange(startDate, endDate): the records within the two dates,
\* sorted by date with localeCompare
GetDailyStatsRange(ds, startDate, endDate) ==
    SortSeq(SelectSeq(ds, LAMBDA st : st.date >= startDate /\ st.date <= endDate),
            LAMBDA x, y : x.date < y.date)

(***************************************************************************)
(* createStorage                                                           *)
(***************************************************************************)
\* getEnvironmentMode(): process.env.MODE if it is one of the three modes
GetEnvironmentMode(env) ==
    IF env \in {"MOCKUP", "DEV", "PROD"} THEN env ELSE "MOCKUP"

\* a bug: every mode served by the mock store
CreateStorageMockupOnly(m) == "MockupStorage"

\* createStorage(): the class of the storage object built for config.mode
CreateStorage(m) ==
    CASE m = "MOCKUP" -> "MockupStorage"
      [] m \in {"DEV", "PROD"} -> "DatabaseStorage"
      [] OTHER -> "MockupStorage"

(***************************************************************************)
(* Configuration: process.env, buildRawConfig, the zod schemas             *)
(***************************************************************************)
\* JavaScript null
Null == [null |-> TRUE]

\* JavaScript numbers as parseInt gives them: NaN, or an integer
NaN == [nan |-> TRUE, n |-> 0]

Num(n) == [nan |-> FALSE, n |-> n]

\* a string that is parsed is a sequence of characters
DigitValue(c) ==
    CASE c = "0" -> 0 [] c = "1" -> 1 [] c = "2" -> 2 [] c = "3" -> 3
      [] c = "4" -> 4 [] c = "5" -> 5 [] c = "6" -> 6 [] c = "7" -> 7
      [] c = "8" -> 8 [] c = "9" -> 9 [] OTHER -> -1

IsDigit(c) == DigitValue(c) >= 0

RECURSIVE SkipSpace(_)
SkipSpace(s) == IF Len(s) > 0 /\ s[1] = " " THEN SkipSpace(Tail(s)) ELSE s

RECURSIVE DigitPrefixValue(_, _)
DigitPrefixValue(s, acc) ==
    IF Len(s) = 0 \/ ~IsDigit(s[1]) THEN acc
    ELSE DigitPrefixValue(Tail(s), acc * 10 + DigitValue(s[1]))

\* parseInt(s): leading blanks, a sign, then the longest prefix of decimal
\* digits; NaN when there is none
ParseInt(s) ==
    LET t == SkipSpace(s)
        negative == Len(t) > 0 /\ t[1] = "-"
        u == IF Len(t) > 0 /\ t[1] \in {"-", "+"} THEN Tail(t) ELSE t
    IN  IF Len(u) = 0 \/ ~IsDigit(u[1]) THEN NaN
        ELSE Num((IF negative THEN -1 ELSE 1) * DigitPrefixValue(u, 0))

\* process.env.NAME || default, for a text and for a string that is parsed
EnvText(e, name, default) ==
    IF name \in DOMAIN e /\ e[name] # "" THEN e[name] ELSE default

EnvDigits(e, name, default) ==
    IF name \in DOMAIN e /\ e[name] # <<>> THEN e[name] ELSE default

\* process.env.DB_POOL_MIN ? parseInt(process.env.DB_POOL_MIN) : undefined
PoolSettings(e) ==
    Spread(IF "DB_POOL_MIN" \in DOMAIN e /\ e.DB_POOL_MIN # <<>>
           THEN [poolMin |-> ParseInt(e.DB_POOL_MIN)] ELSE <<>>,
           IF "DB_POOL_MAX" \in DOMAIN e /\ e.DB_POOL_MAX # <<>>
           THEN [poolMax |-> ParseInt(e.DB_POOL_MAX)] ELSE <<>>)

\* buildRawConfig()
BuildRawConfig(e) ==
    LET m == GetEnvironmentMode(EnvText(e, "MODE", ""))
        baseConfig ==
            [mode |-> m,
             retentionDays |-> ParseInt(EnvDigits(e, "RETENTION_DAYS", <<"3", "0">>)),
             port |-> ParseInt(EnvDigits(e, "PORT", <<"5", "0", "0", "0">>)),
             logLevel |-> EnvText(e, "LOG_LEVEL", "debug")]
    IN  CASE m = "MOCKUP" ->
               Spread(baseConfig,
                      [mockDataSeed |->
                          ParseInt(EnvDigits(e, "MOCK_DATA_SEED",
                                             <<"1", "2", "3", "4", "5">>))])
          [] m = "DEV" ->
               Spread(baseConfig,
                      [database |-> Spread(
                          [host |-> EnvText(e, "DEV_DB_HOST", "localhost"),
                           port |-> ParseInt(EnvDigits(e, "DEV_DB_PORT", <<"5", "4", "3", "2">>)),
                           database |-> EnvText(e, "DEV_DB_NAME", "delivery_dev"),
                           username |-> EnvText(e, "DEV_DB_USER", "dev_user"),
                           password |-> EnvText(e, "DEV_DB_PASSWORD", "dev_password")],
                          PoolSettings(e))])
          [] m = "PROD" ->
               Spread(baseConfig,
                      [database |-> Spread(
                          [host |-> EnvText(e, "PROD_DB_HOST", "localhost"),
                           port |-> ParseInt(EnvDigits(e, "PROD_DB_PORT", <<"5", "4", "3", "2">>)),
                           database |-> EnvText(e, "PROD_DB_NAME", "delivery_prod"),
                           username |-> EnvText(e, "PROD_DB_USER", "prod_user"),
                           password |-> EnvText(e, "PROD_DB_PASSWORD", ""),
                           ssl |-> ("DB_SSL" \in DOMAIN e /\ e.DB_SSL = "true"),
                           sslRejectUnauthorized |->
                               ~("DB_SSL_REJECT_UNAUTHORIZED" \in DOMAIN e
                                 /\ e.DB_SSL_REJECT_UNAUTHORIZED = "false")],
                          PoolSettings(e))])
          [] OTHER -> baseConfig

\* z.number().min(lo).max(hi): NaN is no number
NumberInRange(v, lo, hi) == ~v.nan /\ v.n >= lo /\ v.n <= hi

\* baseConfigSchema; every property is present in the raw configuration, so
\* no default applies
BaseConfigSchema(c) ==
    /\ c.mode \in {"MOCKUP", "DEV", "PROD"}
    /\ NumberInRange(c.retentionDays, 1, 365)
    /\ NumberInRange(c.port, 1, 65535)
    /\ c.logLevel \in {"debug", "info", "warn", "error"}

\* mockupConfigSchema
MockupConfigSchema(c) ==
    /\ BaseConfigSchema(c)
    /\ c.mode = "MOCKUP"
    /\ ~c.mockDataSeed.nan
    /\ c.mockDataSeed.n > 0

\* databaseConfigSchema
DatabaseConfigSchema(d) ==
    /\ d.host # ""
    /\ NumberInRange(d.port, 1, 65535)
    /\ d.database # ""
    /\ d.username # ""
    /\ "poolMin" \in DOMAIN d => (~d.poolMin.nan /\ d.poolMin.n >= 1)
    /\ "poolMax" \in DOMAIN d => (~d.poolMax.nan /\ d.poolMax.n >= 1)
    /\ "ssl" \in DOMAIN d => d.ssl \in BOOLEAN
    /\ "sslRejectUnauthorized" \in DOMAIN d => d.sslRejectUnauthorized \in BOOLEAN

\* devConfigSchema
DevConfigSchema(c) ==
    /\ BaseConfigSchema(c)
    /\ c.mode = "DEV"
    /\ DatabaseConfigSchema(c.database)

\* prodConfigSchema: logLevel is replaced by z.enum(['warn', 'error'])
ProdConfigSchema(c) ==
    /\ c.mode = "PROD"
    /\ NumberInRange(c.retentionDays, 1, 365)
    /\ NumberInRange(c.port, 1, 65535)
    /\ DatabaseConfigSchema(c.database)
    /\ c.logLevel \in {"warn", "error"}

\* environmentConfigSchema: the union discriminated by mode
EnvironmentConfigSchema(c) ==
    CASE c.mode = "MOCKUP" -> MockupConfigSchema(c)
      [] c.mode = "DEV" -> DevConfigSchema(c)
      [] c.mode = "PROD" -> ProdConfigSchema(c)
      [] OTHER -> FALSE

ConfigurationError == [error |-> "Configuration validation failed"]

\* validateEnvironmentConfig(config): the parsed configuration, or the error
\* thrown
ValidateEnvironmentConfig(c) ==
    IF EnvironmentConfigSchema(c) THEN c ELSE ConfigurationError

\* the EnvironmentConfig that getEnvironmentConfig returns for a validated one
EnvironmentConfigOf(config) ==
    IF config.mode = "MOCKUP"
    THEN [mode |-> config.mode, retentionDays |-> config.retentionDays,
          mockDataSeed |-> config.mockDataSeed]
    ELSE [mode |-> config.mode, retentionDays |-> config.retentionDays,
          database |-> config.database]

(***************************************************************************)
(* State                                                                   *)
(***************************************************************************)
VARIABLES
    processEnv,  \* process.env
    cachedConfig,\* cachedConfig of the configuration module
    exited,      \* process.exit was called
    mode,        \* config.mode
    tz,          \* the process's time zone
    now,         \* the clock: new Date()
    seed,        \* config.seed
    rng,         \* this.rng.seed
    customers,   \* this.customers
    batches,     \* this.batches
    dailyStats,  \* this.dailyStats
    uuids,       \* how many ids randomUUID() has handed out
    ops,         \* state-changing steps taken since construction
    ret,         \* the last call and what it returned
    twin         \* a second MockupStorage built with the same seed, as built

vars == <<processEnv, cachedConfig, exited, mode, tz, now, seed, rng, customers, batches, dailyStats, uuids, ops, ret, twin>>

store == <<customers, batches, dailyStats>>

\* the environment of a process started in a mode; PROD names its log level
EnvOf(m) == IF m = "PROD" THEN [MODE |-> m, LOG_LEVEL |-> "warn"] ELSE [MODE |-> m]

\* the storage module has called getEnvironmentConfig() under process.env = e
Configured(e) ==
    /\ processEnv = e
    /\ cachedConfig = ValidateEnvironmentConfig(BuildRawConfig(e))
    /\ exited = FALSE

\* where and when the process is started: in UTC at 10:00, at 08:00 in a
\* zone nine hours ahead, at 00:00 in a zone that put its clocks forward
\* DstAgo days ago; and in UTC at midnight
Starts ==
    { [tz |-> UtcZone,   now |-> BaseDay * 24 + 10],
      [tz |-> FixedZone, now |-> BaseDay * 24 + 23],
      [tz |-> DstZone,   now |-> BaseDay * 24 + 23] }

GenStarts == Starts \cup { [tz |-> UtcZone, now |-> BaseDay * 24] }

Seeds == {DefaultSeed}

\* mockDataSeed: z.number().int().positive()
ValidSeed(sd) == sd > 0

\* seeds the generator is constructed with, one of them not a valid seed
GenSeeds == {0, 1, 42, DefaultSeed, Modulus}

\* new MockupStorage(sd) in the setting st
Construct(st, sd) ==
    LET g == GenerateMockData(st.tz, st.now, sd)
    IN  /\ tz = st.tz
        /\ now = st.now
        /\ seed = sd
        /\ rng = g.rng
        /\ customers = g.customers
        /\ batches = g.batches
        /\ dailyStats = g.dailyStats
        /\ uuids = 0
        /\ ops = 0
        /\ ret = [op |-> "constructor"]
        /\ twin = None

\* storage = createStorage() in MOCKUP mode
Init ==
    /\ mode = GetEnvironmentMode("MOCKUP")
    /\ Configured(EnvOf("MOCKUP"))
    /\ CreateStorage(mode) = "MockupStorage"
    /\ \E st \in Starts, sd \in Seeds : Construct(st, sd)

InitGen ==
    /\ mode = GetEnvironmentMode("MOCKUP")
    /\ Configured(EnvOf("MOCKUP"))
    /\ CreateStorage(mode) = "MockupStorage"
    /\ \E st \in GenStarts, sd \in GenSeeds : Construct(st, sd)

\* a day passes
Tick ==
    /\ ops < MaxOps
    /\ now' = now + 24
    /\ ops' = ops + 1
    /\ UNCHANGED <<processEnv, cachedConfig, exited, mode, tz, seed, rng, customers, batches, dailyStats, uuids, ret, twin>>

\* a second new MockupStorage(seed), e.g. by new MemStorage()
ConstructAgain ==
    /\ twin = None
    /\ twin' = GenerateMockData(tz, now, seed)
    /\ UNCHANGED <<processEnv, cachedConfig, exited, mode, tz, now, seed, rng, customers, batches, dailyStats, uuids, ops, ret>>

(***************************************************************************)
(* Storage operations                                                      *)
(***************************************************************************)
\* the filter sets tried (a page chain continues them by GetNextPage)
FilterSets ==
    { [limit |-> 0],
      [type |-> "all", limit |-> 50, offset |-> 0],
      [type |-> "sent", limit |-> 5, offset |-> 0],
      [type |-> "sent", limit |-> 5, offset |-> 28],
      [type |-> "received", dateFrom |-> BaseDay - 3, limit |-> 3, offset |-> 0],
      [dateFrom |-> BaseDay - 12, dateTo |-> BaseDay - 9, limit |-> 4, offset |-> 0],
      [dateFrom |-> BaseDay - 2, dateTo |-> BaseDay - 5, limit |-> 20],
      [type |-> "received", dateTo |-> BaseDay - 27, offset |-> 70],
      [type |-> "sent", dateTo |-> BaseDay - 20, limit |-> -2, offset |-> 3] }

\* a client that pages starts at offset 0 with a positive limit
StartsChain(filters) ==
    /\ "limit" \in DOMAIN filters /\ filters.limit > 0
    /\ "offset" \in DOMAIN filters /\ filters.offset = 0

\* a bug: getBatches sorting the store's own sequence of batches
GetBatchesCallSortingStore ==
    \E filters \in FilterSets :
        LET r == GetBatches(batches, filters)
        IN  /\ ret' = [op |-> "getBatches", filters |-> filters,
                       batches |-> r.batches, total |-> r.total,
                       selected |-> r.selected,
                       pages |-> IF StartsChain(filters) THEN r.batches ELSE <<>>,
                       chained |-> StartsChain(filters)]
            /\ batches' = SortByDateDesc(batches)
            /\ UNCHANGED <<processEnv, cachedConfig, exited, mode, tz, now, seed, rng, customers, dailyStats, uuids, ops, twin>>

\* getBatches(filters); a call with offset 0 starts a chain of pages
GetBatchesCall ==
    \E filters \in FilterSets :
        LET r == GetBatches(batches, filters)
        IN  /\ ret' = [op |-> "getBatches", filters |-> filters,
                       batches |-> r.batches, total |-> r.total,
                       selected |-> r.selected,
                       pages |-> IF StartsChain(filters) THEN r.batches ELSE <<>>,
                       chained |-> StartsChain(filters)]
            /\ UNCHANGED <<processEnv, cachedConfig, exited, mode, tz, now, seed, rng, customers, batches, dailyStats, uuids, ops, twin>>

\* the client asks for the next page: same filters, offset stepped by limit
GetNextPage ==
    /\ ret.op = "getBatches"
    /\ ret.chained
    /\ Len(ret.batches) > 0
    /\ LET filters == Spread(ret.filters,
                         [offset |-> ret.filters.offset + ret.filters.limit])
           r == GetBatches(batches, filters)
       IN  ret' = [op |-> "getBatches", filters |-> filters,
                   batches |-> r.batches, total |-> r.total,
                   selected |-> r.selected,
                   pages |-> ret.pages \o r.batches, chained |-> TRUE]
    /\ UNCHANGED <<processEnv, cachedConfig, exited, mode, tz, now, seed, rng, customers, batches, dailyStats, uuids, ops, twin>>

InsertBatches ==
    { [date |-> BaseDay - 40, type |-> "sent", fileName |-> <<"upload", 1>>,
       customerCount |-> 7],
      [date |-> BaseDay - 3, type |-> "received", fileName |-> <<"upload", 2>>,
       channel |-> "LINE OA", customerCount |-> 4, confirmed |-> 2,
       notConfirmed |-> 1, questions |-> 0, other |-> 1] }

\* a bug: ids that repeat
RepeatedUUID(n) == <<"uuid", 0>>

\* randomUUID(): the n-th id handed out, different from all before it
RandomUUID(n) == <<"uuid", n>>

\* createBatch(insertBatch)
CreateBatch ==
    \E insertBatch \in InsertBatches :
        LET id == RandomUUID(uuids)
            batch ==
                [id |-> id, date |-> insertBatch.date, type |-> insertBatch.type,
                 fileName |-> insertBatch.fileName,
                 channel |-> IF "channel" \in DOMAIN insertBatch
                             THEN insertBatch.channel ELSE "LINE OA",
                 customerCount |-> OrZero(insertBatch, "customerCount"),
                 confirmed |-> OrZero(insertBatch, "confirmed"),
                 notConfirmed |-> OrZero(insertBatch, "notConfirmed"),
                 questions |-> OrZero(insertBatch, "questions"),
                 other |-> OrZero(insertBatch, "other"),
                 createdAt |-> now]
        IN  /\ ops < MaxOps
            /\ batches' = SetById(batches, batch)
            /\ uuids' = uuids + 1
            /\ ops' = ops + 1
            /\ ret' = [op |-> "createBatch", batch |-> batch]
            /\ UNCHANGED <<processEnv, cachedConfig, exited, mode, tz, now, seed, rng, customers, dailyStats, twin>>

RetentionDays == {0, 20, 35}

\* a bug: the sweep also removes the daily stats dated before the cutoff
DeleteBatchesAndStatsOlderThan ==
    \E days \in RetentionDays :
        LET cutoffStr == CutoffStr(tz, now, days)
            entriesToDelete == EntriesToDelete(batches, cutoffStr)
        IN  /\ ops < MaxOps
            /\ batches' = DeleteEntries(batches, entriesToDelete)
            /\ dailyStats' = SelectSeq(dailyStats, LAMBDA st : st.date >= cutoffStr)
            /\ ops' = ops + 1
            /\ ret' = [op |-> "deleteBatchesOlderThan", days |-> days,
                       deletedCount |-> Len(entriesToDelete)]
            /\ UNCHANGED <<processEnv, cachedConfig, exited, mode, tz, now, seed, rng, customers, uuids, twin>>

\* deleteBatchesOlderThan(days)
DeleteBatchesOlderThan ==
    \E days \in RetentionDays :
        LET entriesToDelete == EntriesToDelete(batches, CutoffStr(tz, now, days))
        IN  /\ ops < MaxOps
            /\ batches' = DeleteEntries(batches, entriesToDelete)
            /\ ops' = ops + 1
            /\ ret' = [op |-> "deleteBatchesOlderThan", days |-> days,
                       deletedCount |-> Len(entriesToDelete)]
            /\ UNCHANGED <<processEnv, cachedConfig, exited, mode, tz, now, seed, rng, customers, dailyStats, uuids, twin>>

InsertStats ==
    { [date |-> BaseDay - 1, totalSent |-> 5],
      [date |-> BaseDay + 5, totalSent |-> 10, totalReceived |-> 12,
       confirmed |-> 3, pending |-> 1] }

\* createOrUpdateDailyStats(insertStats)
CreateOrUpdateDailyStats ==
    \E insertStats \in InsertStats :
        LET existing == GetByDate(dailyStats, insertStats.date)
            stats ==
                IF existing # None THEN Spread(existing, insertStats)
                ELSE [id |-> RandomUUID(uuids), date |-> insertStats.date,
                      totalSent |-> OrZero(insertStats, "totalSent"),
                      totalReceived |-> OrZero(insertStats, "totalReceived"),
                      confirmed |-> OrZero(insertStats, "confirmed"),
                      notConfirmed |-> OrZero(insertStats, "notConfirmed"),
                      questions |-> OrZero(insertStats, "questions"),
                      other |-> OrZero(insertStats, "other"),
                      pending |-> OrZero(insertStats, "pending")]
        IN  /\ ops < MaxOps
            /\ dailyStats' = SetByDate(dailyStats, stats)
            /\ uuids' = IF existing # None THEN uuids ELSE uuids + 1
            /\ ops' = ops + 1
            /\ ret' = [op |-> "createOrUpdateDailyStats", stats |-> stats]
            /\ UNCHANGED <<processEnv, cachedConfig, exited, mode, tz, now, seed, rng, customers, batches, twin>>

InsertCustomers ==
    { [name |-> <<0, 1>>, phone |-> <<70, 1000, 1000>>] }

\* createCustomer(insertCustomer)
CreateCustomer ==
    \E insertCustomer \in InsertCustomers :
        LET customer == Spread(insertCustomer, [id |-> RandomUUID(uuids)])
        IN  /\ ops < MaxOps
            /\ customers' = SetById(customers, customer)
            /\ uuids' = uuids + 1
            /\ ops' = ops + 1
            /\ ret' = [op |-> "createCustomer", customer |-> customer]
            /\ UNCHANGED <<processEnv, cachedConfig, exited, mode, tz, now, seed, rng, batches, dailyStats, twin>>

ChartDays == {7, 31}

\* getChartData(days)
GetChartDataCall ==
    \E days \in ChartDays :
        /\ ret' = [op |-> "getChartData", days |-> days,
                   chartData |-> GetChartData(tz, now, dailyStats, days)]
        /\ UNCHANGED <<processEnv, cachedConfig, exited, mode, tz, now, seed, rng, customers, batches, dailyStats, uuids, ops, twin>>

\* keys looked up: of generated records, of created records, of none
CustomerIds == { <<"customer", 0>>, <<"customer", RosterSize>>, <<"uuid", 0>> }

Phones == { customers[1].phone, <<70, 1000, 1000>> }

BatchIds == { <<"received", BaseDay - 1>>, <<"sent", BaseDay - 40>>, <<"uuid", 0>> }

StatsDates == { BaseDay - 1, BaseDay + 5 }

\* getCustomer(id)
GetCustomer ==
    \E id \in CustomerIds :
        /\ ret' = [op |-> "getCustomer", key |-> id,
                   result |-> GetById(customers, id)]
        /\ UNCHANGED <<processEnv, cachedConfig, exited, mode, tz, now, seed, rng, customers, batches, dailyStats, uuids, ops, twin>>

\* getCustomerByPhone(phone)
GetCustomerByPhone ==
    \E phone \in Phones :
        /\ ret' = [op |-> "getCustomerByPhone", key |-> phone,
                   result |-> FindByPhone(customers, phone)]
        /\ UNCHANGED <<processEnv, cachedConfig, exited, mode, tz, now, seed, rng, customers, batches, dailyStats, uuids, ops, twin>>

\* getBatch(id)
GetBatch ==
    \E id \in BatchIds :
        /\ ret' = [op |-> "getBatch", key |-> id,
                   result |-> GetById(batches, id)]
        /\ UNCHANGED <<processEnv, cachedConfig, exited, mode, tz, now, seed, rng, customers, batches, dailyStats, uuids, ops, twin>>

\* getDailyStats(date)
GetDailyStats ==
    \E date \in StatsDates :
        /\ ret' = [op |-> "getDailyStats", key |-> date,
                   result |-> GetByDate(dailyStats, date)]
        /\ UNCHANGED <<processEnv, cachedConfig, exited, mode, tz, now, seed, rng, customers, batches, dailyStats, uuids, ops, twin>>

\* getDashboardMetrics()
GetDashboardMetricsCall ==
    LET today == IsoDate(now)
    IN  /\ ret' = [op |-> "getDashboardMetrics", today |-> today,
                   metrics |-> GetDashboardMetrics(dailyStats, today)]
        /\ UNCHANGED <<processEnv, cachedConfig, exited, mode, tz, now, seed, rng, customers, batches, dailyStats, uuids, ops, twin>>

Next ==
    \/ Tick
    \/ GetBatchesCall
    \/ GetNextPage
    \/ CreateBatch
    \/ DeleteBatchesOlderThan
    \/ CreateOrUpdateDailyStats
    \/ CreateCustomer
    \/ GetChartDataCall

Spec == Init /\ [][Next]_vars

\* lookups by key and the dashboard's metrics between the operations that
\* add and remove records
NextLookup ==
    \/ Tick
    \/ CreateBatch
    \/ DeleteBatchesOlderThan
    \/ CreateOrUpdateDailyStats
    \/ CreateCustomer
    \/ GetCustomer
    \/ GetCustomerByPhone
    \/ GetBatch
    \/ GetDailyStats
    \/ GetDashboardMetricsCall

SpecLookup == Init /\ [][NextLookup]_vars

\* construction alone: the generator run once, and once more later
NextGen == Tick \/ ConstructAgain

SpecGen == InitGen /\ [][NextGen]_vars

StatsRanges ==
    { <<BaseDay - 3, BaseDay + 5>>, <<BaseDay - 1, BaseDay - 2>>, <<BaseDay - 40, BaseDay - 28>> }

\* getDailyStatsRange(startDate, endDate)
GetDailyStatsRangeCall ==
    \E range \in StatsRanges :
        /\ ret' = [op |-> "getDailyStatsRange", startDate |-> range[1],
                   endDate |-> range[2],
                   result |-> GetDailyStatsRange(dailyStats, range[1], range[2])]
        /\ UNCHANGED <<processEnv, cachedConfig, exited, mode, tz, now, seed, rng, customers, batches, dailyStats, uuids, ops, twin>>

\* getCategoryData()
GetCategoryDataCall ==
    /\ ret' = [op |-> "getCategoryData",
               result |-> GetCategoryData(dailyStats, IsoDate(now))]
    /\ UNCHANGED <<processEnv, cachedConfig, exited, mode, tz, now, seed, rng, customers, batches, dailyStats, uuids, ops, twin>>

\* the thirteen operations of the store mixed, few state-changing steps
NextStore ==
    /\ \/ Tick
       \/ GetCustomer
       \/ GetCustomerByPhone
       \/ CreateCustomer
       \/ GetBatch
       \/ GetBatchesCall
       \/ GetNextPage
       \/ CreateBatch
       \/ DeleteBatchesOlderThan
       \/ GetDailyStats
       \/ GetDailyStatsRangeCall
       \/ CreateOrUpdateDailyStats
       \/ GetDashboardMetricsCall
       \/ GetChartDataCall
       \/ GetCategoryDataCall
    /\ ops' <= MaxStoreOps

SpecStore == Init /\ [][NextStore]_vars

(***************************************************************************)
(* The generator on its own                                                *)
(***************************************************************************)
\* positive seeds, among them the largest state and a multiple of Modulus
RngSeeds == {1, 2, 42, DefaultSeed, Modulus - 1, Modulus}

\* the ranges nextInt is asked for: the generator's three, and small ones
IntRanges == { <<150, 200>>, <<70, 90>>, <<1000, 9999>>, <<0, 0>>, <<0, 1>>, <<-3, 3>> }

\* the constructor of MockupStorage has built this.rng and the empty maps
InitRng ==
    \E sd \in RngSeeds :
        /\ mode = GetEnvironmentMode("MOCKUP")
        /\ Configured(EnvOf("MOCKUP"))
        /\ tz = UtcZone
        /\ now = BaseDay * 24
        /\ seed = sd
        /\ rng = SeededRandomInit(sd)
        /\ customers = <<>>
        /\ batches = <<>>
        /\ dailyStats = <<>>
        /\ uuids = 0
        /\ ops = 0
        /\ ret = [op |-> "SeededRandom"]
        /\ twin = None

\* rng.next(): value is the numerator of the result over NextDivisor
RngNext ==
    /\ ops < MaxCalls
    /\ rng' = NextSeed(rng)
    /\ ops' = ops + 1
    /\ ret' = [op |-> "next", value |-> NextValue(rng')]
    /\ UNCHANGED <<processEnv, cachedConfig, exited, mode, tz, now, seed, customers, batches, dailyStats, uuids, twin>>

\* rng.nextInt(min, max)
RngNextInt ==
    \E range \in IntRanges :
        /\ ops < MaxCalls
        /\ rng' = NextSeed(rng)
        /\ ops' = ops + 1
        /\ ret' = [op |-> "nextInt", min |-> range[1], max |-> range[2],
                   result |-> NextIntValue(rng', range[1], range[2])]
        /\ UNCHANGED <<processEnv, cachedConfig, exited, mode, tz, now, seed, customers, batches, dailyStats, uuids, twin>>

NextRng == RngNext \/ RngNextInt

SpecRng == InitRng /\ [][NextRng]_vars

(***************************************************************************)
(* DatabaseStorage                                                         *)
(***************************************************************************)
NotImplemented == "Database operations not yet implemented - using mockup mode for demo"

\* process.env.MODE: the three modes, and a value that is none of them
Environments == {"MOCKUP", "DEV", "PROD", "TEST"}

\* storage = createStorage(): a DatabaseStorage holds no collections
InitDb ==
    \E env \in Environments, st \in Starts :
        IF CreateStorage(GetEnvironmentMode(env)) = "MockupStorage"
        THEN /\ mode = GetEnvironmentMode(env)
             /\ Configured(EnvOf(env))
             /\ Construct(st, DefaultSeed)
        ELSE /\ mode = GetEnvironmentMode(env)
             /\ Configured(EnvOf(env))
             /\ tz = st.tz
             /\ now = st.now
             /\ seed = DefaultSeed
             /\ rng = 0
             /\ customers = <<>>
             /\ batches = <<>>
             /\ dailyStats = <<>>
             /\ uuids = 0
             /\ ops = 0
             /\ ret = [op |-> "constructor"]
             /\ twin = None

\* a method of DatabaseStorage: throw new Error(...)
DatabaseThrow(op, args) ==
    /\ CreateStorage(mode) = "DatabaseStorage"
    /\ ret' = [op |-> op, args |-> args, error |-> NotImplemented]
    /\ UNCHANGED <<processEnv, cachedConfig, exited, mode, tz, now, seed, rng, customers, batches, dailyStats, uuids, ops, twin>>

DbGetCustomer == \E id \in CustomerIds : DatabaseThrow("getCustomer", <<id>>)

DbGetCustomerByPhone ==
    \E c \in InsertCustomers : DatabaseThrow("getCustomerByPhone", <<c.phone>>)

DbCreateCustomer == \E c \in InsertCustomers : DatabaseThrow("createCustomer", <<c>>)

DbGetBatch == \E id \in BatchIds : DatabaseThrow("getBatch", <<id>>)

DbGetBatches == \E filters \in FilterSets : DatabaseThrow("getBatches", <<filters>>)

DbCreateBatch == \E b \in InsertBatches : DatabaseThrow("createBatch", <<b>>)

DbDeleteBatchesOlderThan ==
    \E days \in RetentionDays : DatabaseThrow("deleteBatchesOlderThan", <<days>>)

DbGetDailyStats == \E date \in StatsDates : DatabaseThrow("getDailyStats", <<date>>)

DbGetDailyStatsRange ==
    \E startDate \in StatsDates, endDate \in StatsDates :
        DatabaseThrow("getDailyStatsRange", <<startDate, endDate>>)

DbCreateOrUpdateDailyStats ==
    \E stats \in InsertStats : DatabaseThrow("createOrUpdateDailyStats", <<stats>>)

DbGetDashboardMetrics == DatabaseThrow("getDashboardMetrics", <<>>)

DbGetChartData == \E days \in ChartDays : DatabaseThrow("getChartData", <<days>>)

DbGetCategoryData == DatabaseThrow("getCategoryData", <<>>)

NextDb ==
    \/ DbGetCustomer
    \/ DbGetCustomerByPhone
    \/ DbCreateCustomer
    \/ DbGetBatch
    \/ DbGetBatches
    \/ DbCreateBatch
    \/ DbDeleteBatchesOlderThan
    \/ DbGetDailyStats
    \/ DbGetDailyStatsRange
    \/ DbCreateOrUpdateDailyStats
    \/ DbGetDashboardMetrics
    \/ DbGetChartData
    \/ DbGetCategoryData

SpecDb == InitDb /\ [][NextDb]_vars

(***************************************************************************)
(* The configuration module on its own                                     *)
(***************************************************************************)
\* the variables set in process.env, group by group; a group's first member
\* sets none
ModeSettings ==
    { <<>>, [MODE |-> "MOCKUP"], [MODE |-> "DEV"], [MODE |-> "PROD"],
      [MODE |-> "TEST"] }

LogLevelSettings ==
    { <<>>, [LOG_LEVEL |-> "debug"], [LOG_LEVEL |-> "info"],
      [LOG_LEVEL |-> "warn"], [LOG_LEVEL |-> "error"],
      [LOG_LEVEL |-> "verbose"], [LOG_LEVEL |-> ""] }

NumberSettings ==
    { <<>>, [RETENTION_DAYS |-> <<"7">>], [RETENTION_DAYS |-> <<"0">>],
      [RETENTION_DAYS |-> <<"3", "6", "6">>], [RETENTION_DAYS |-> <<"a", "b">>],
      [PORT |-> <<"8", "0", "p">>], [MOCK_DATA_SEED |-> <<"-", "1">>],
      [MOCK_DATA_SEED |-> <<" ", "4", "2">>] }

DatabaseSettings ==
    { <<>>, [PROD_DB_HOST |-> "db", DB_SSL |-> "true"],
      [PROD_DB_PORT |-> <<"0">>], [DEV_DB_PORT |-> <<"x">>],
      [DB_POOL_MIN |-> <<"0">>], [DB_POOL_MAX |-> <<"2", "0">>] }

ProcessEnvs ==
    { Spread(Spread(m, l), Spread(n, d)) :
        m \in ModeSettings, l \in LogLevelSettings,
        n \in NumberSettings, d \in DatabaseSettings }

\* the process has started and nothing has asked for the configuration yet
InitConfig ==
    \E e \in ProcessEnvs :
        /\ processEnv = e
        /\ cachedConfig = Null
        /\ exited = FALSE
        /\ mode = GetEnvironmentMode(EnvText(e, "MODE", ""))
        /\ tz = UtcZone
        /\ now = BaseDay * 24
        /\ seed = DefaultSeed
        /\ rng = 0
        /\ customers = <<>>
        /\ batches = <<>>
        /\ dailyStats = <<>>
        /\ uuids = 0
        /\ ops = 0
        /\ ret = [op |-> "import"]
        /\ twin = None

\* getEnvironmentConfig(): the first call validates the raw configuration and
\* caches it, or ends the process with process.exit(1); every call returns
\* the EnvironmentConfig of the cached one
GetEnvironmentConfig ==
    /\ ~exited
    /\ ops < MaxConfigCalls
    /\ ops' = ops + 1
    /\ IF cachedConfig = Null
       THEN LET validated == ValidateEnvironmentConfig(BuildRawConfig(processEnv))
            IN  IF validated = ConfigurationError
                THEN /\ exited' = TRUE
                     /\ cachedConfig' = cachedConfig
                     /\ ret' = [op |-> "process.exit", code |-> 1]
                ELSE /\ exited' = exited
                     /\ cachedConfig' = validated
                     /\ ret' = [op |-> "getEnvironmentConfig",
                                config |-> EnvironmentConfigOf(validated)]
       ELSE /\ UNCHANGED <<cachedConfig, exited>>
            /\ ret' = [op |-> "getEnvironmentConfig",
                       config |-> EnvironmentConfigOf(cachedConfig)]
    /\ UNCHANGED <<processEnv, mode, tz, now, seed, rng, customers, batches,
                   dailyStats, uuids, twin>>

\* getLogLevel()
GetLogLevel ==
    /\ ~exited
    /\ ops < MaxConfigCalls
    /\ ops' = ops + 1
    /\ ret' = [op |-> "getLogLevel",
               level |-> IF GetEnvironmentMode(EnvText(processEnv, "MODE", "")) = "PROD"
                         THEN "warn" ELSE "debug"]
    /\ UNCHANGED <<processEnv, cachedConfig, exited, mode, tz, now, seed, rng,
                   customers, batches, dailyStats, uuids, twin>>

NextConfig ==
    \/ GetEnvironmentConfig
    \/ GetLogLevel

SpecConfig == InitConfig /\ [][NextConfig]_vars

(***************************************************************************)
(* Properties                                                              *)
(***************************************************************************)
\* the datasets a generator run has produced: this store's and the twin's
Generated ==
    {[batches |-> batches, dailyStats |-> dailyStats]}
    \cup (IF twin = None THEN {}
          ELSE {[batches |-> twin.batches, dailyStats |-> twin.dailyStats]})

CategorySum(r) == r.confirmed + r.notConfirmed + r.questions + r.other

\* does batch b pass the type and date filters of f (both date bounds inclusive)
Matches(b, f) ==
    /\ ("type" \notin DOMAIN f) \/ f.type = "all" \/ b.type = f.type
    /\ ("dateFrom" \notin DOMAIN f) \/ b.date >= f.dateFrom
    /\ ("dateTo" \notin DOMAIN f) \/ b.date <= f.dateTo

\* the positions in the batch map of the batches that pass f
Matching(f) == {i \in 1..Len(batches) : Matches(batches[i], f)}

RequestedOffset(f) == IF "offset" \in DOMAIN f THEN f.offset ELSE 0

\* C1: two constructions with the same seed and configuration yield equal
\* customer rosters, batch collections (every field) and daily-stats
\* collections.
C1_SameSeedSameData ==
    (twin # None /\ twin.seed = seed) =>
        /\ twin.customers = customers
        /\ twin.batches = batches
        /\ twin.dailyStats = dailyStats

\* C2: in every generated received batch the four category counts add up to
\* the batch's customerCount.
C2_ReceivedSumsToCount ==
    \A g \in Generated : \A i \in 1..Len(g.batches) :
        g.batches[i].type = "received" =>
            CategorySum(g.batches[i]) = g.batches[i].customerCount

\* a received batch whose remainder category took up a rounding loss
C2_Witness ==
    \E i \in 1..Len(batches) :
        /\ batches[i].type = "received"
        /\ batches[i].confirmed > 0
        /\ batches[i].other > CategoryCount(batches[i].customerCount, PctOther)

\* C3: every generated DailyStats record has pending = totalSent -
\* totalReceived and totalReceived <= totalSent.
C3_PendingIsDifference ==
    \A g \in Generated : \A i \in 1..Len(g.dailyStats) :
        /\ g.dailyStats[i].pending = g.dailyStats[i].totalSent - g.dailyStats[i].totalReceived
        /\ g.dailyStats[i].totalReceived <= g.dailyStats[i].totalSent

C3_Witness ==
    /\ twin # None
    /\ \E i \in 1..Len(twin.dailyStats) :
        /\ twin.dailyStats[i].pending > 0
        /\ twin.dailyStats[i].totalReceived > 0

\* C4: right after generation every DailyStats record of date d agrees with
\* the sent and the received batch of date d (totalSent, totalReceived and the
\* four category counts), and its category counts add up to totalReceived.
C4_StatsDerivedFromPair ==
    \A g \in Generated : \A i \in 1..Len(g.dailyStats) :
        LET s == g.dailyStats[i]
        IN  /\ \E j \in 1..Len(g.batches) :
                   g.batches[j].date = s.date /\ g.batches[j].type = "sent"
            /\ \E j \in 1..Len(g.batches) :
                   g.batches[j].date = s.date /\ g.batches[j].type = "received"
            /\ \A j \in 1..Len(g.batches) :
                   LET b == g.batches[j]
                   IN  b.date = s.date =>
                         IF b.type = "sent"
                         THEN s.totalSent = b.customerCount
                         ELSE /\ s.totalReceived = b.customerCount
                              /\ s.confirmed = b.confirmed
                              /\ s.notConfirmed = b.notConfirmed
                              /\ s.questions = b.questions
                              /\ s.other = b.other
            /\ CategorySum(s) = s.totalReceived

\* a dataset in which one date was generated twice, so that its batches and
\* its stats were written twice
C4_Witness ==
    /\ Len(dailyStats) > 0
    /\ Len(dailyStats) < DaysOfHistory
    /\ \E i \in 1..Len(dailyStats) : dailyStats[i].totalReceived > 0

\* C5: getBatches(filters).total is the number of batches in the store that
\* pass the type and date filters, whatever limit and offset are; an offset at
\* or beyond that number yields no batches and the same total.
C5_TotalIsFilteredCount ==
    ret.op = "getBatches" =>
        /\ ret.total = Cardinality(Matching(ret.filters))
        /\ RequestedOffset(ret.filters) >= Cardinality(Matching(ret.filters))
              => ret.batches = <<>>

C5_Witness ==
    /\ ret.op = "getBatches"
    /\ ret.total > 0
    /\ RequestedOffset(ret.filters) >= ret.total
    /\ ret.batches = <<>>

\* C6: with the store unchanged, the pages fetched at offsets 0, limit,
\* 2*limit, ... up to the first empty page are, concatenated, the batches that
\* pass the filters: each once, none missing, newest date first.
C6_PagesReconstruct ==
    (ret.op = "getBatches" /\ ret.chained /\ ret.batches = <<>>) =>
        LET m == Matching(ret.filters)
            p == ret.pages
        IN  /\ Len(p) = Cardinality(m)
            /\ {p[k].id : k \in 1..Len(p)} = {batches[i].id : i \in m}
            /\ \A k \in 1..Len(p) : \A l \in 1..Len(p) : p[k].id = p[l].id => k = l
            /\ \A k \in 1..(Len(p) - 1) : p[k].date >= p[k + 1].date
            /\ \A k \in 1..Len(p) : \E i \in m :
                   \A f \in DOMAIN batches[i] : p[k][f] = batches[i][f]

\* a chain of several pages that has reached its empty page
C6_Witness ==
    /\ ret.op = "getBatches"
    /\ ret.chained
    /\ ret.batches = <<>>
    /\ Len(ret.pages) > 2 * ret.filters.limit
    /\ Len(ret.pages) < Len(batches)

\* the position in the batch map of the batch with this id
PositionOf(id) == CHOOSE i \in 1..Len(batches) : batches[i].id = id

\* C7: getBatches returns batches newest date first, batches of one date in
\* their store order; and on a freshly generated dataset
\* getBatches({type: 'sent', limit: 5, offset: 0}) returns the 5 sent batches
\* of the 5 most recent dates with total = 30.
C7_NewestFirstFiveOfThirty ==
    ret.op = "getBatches" =>
        LET p == ret.batches
        IN  /\ \A k \in 1..(Len(p) - 1) :
                   \/ p[k].date > p[k + 1].date
                   \/ /\ p[k].date = p[k + 1].date
                      /\ PositionOf(p[k].id) < PositionOf(p[k + 1].id)
            /\ (ops = 0 /\ ret.filters = [type |-> "sent", limit |-> 5, offset |-> 0]) =>
                   /\ Len(p) = 5
                   /\ ret.total = DaysOfHistory
                   /\ \A k \in 1..Len(p) : p[k].type = "sent"
                   /\ \A i \in 1..Len(batches) :
                          (batches[i].type = "sent"
                             /\ batches[i].id \notin {p[k].id : k \in 1..Len(p)})
                          => \A k \in 1..Len(p) : batches[i].date < p[k].date

\* C8: the batches getBatches selects before it sorts and cuts the page are
\* exactly the batches of the store that pass the type filter (none, 'all' or
\* equal type) and lie within dateFrom and dateTo, both bounds included.
C8_SelectedAreTheMatching ==
    ret.op = "getBatches" =>
        /\ {ret.selected[k] : k \in 1..Len(ret.selected)}
              = {batches[i].id : i \in Matching(ret.filters)}
        /\ Len(ret.selected) = Cardinality(Matching(ret.filters))

\* a selection that holds batches dated on both bounds and leaves others out
C8_Witness ==
    /\ ret.op = "getBatches"
    /\ "dateFrom" \in DOMAIN ret.filters
    /\ "dateTo" \in DOMAIN ret.filters
    /\ \E k \in 1..Len(ret.selected) :
           batches[PositionOf(ret.selected[k])].date = ret.filters.dateFrom
    /\ \E k \in 1..Len(ret.selected) :
           batches[PositionOf(ret.selected[k])].date = ret.filters.dateTo
    /\ Len(ret.selected) < Len(batches)

\* C9: getChartData(days) returns days entries, one per calendar day of the
\* last days days ending today, oldest first, and the entry of a day carries
\* totalSent and totalReceived of the DailyStats record of that day, or 0 and
\* 0 when there is none.
C9_ChartDaysMatchStats ==
    ret.op = "getChartData" =>
        /\ Len(ret.chartData) = ret.days
        /\ \A j \in 1..Len(ret.chartData) :
               LET e == ret.chartData[j]
                   recorded == {i \in 1..Len(dailyStats) : dailyStats[i].date = e.date}
               IN  /\ e.date = LocaleDate(tz, now) - (ret.days - j)
                   /\ IF recorded = {}
                      THEN e.sent = 0 /\ e.received = 0
                      ELSE \A i \in recorded :
                              /\ e.sent = dailyStats[i].totalSent
                              /\ e.received = dailyStats[i].totalReceived

\* C10: deleteBatchesOlderThan(N) leaves no batch dated before today - N,
\* keeps every batch dated on or after it, and returns how many batches were
\* dated before it.
C10_RetentionExact ==
    [][(ops' = ops + 1 /\ now' = now /\ ret'.op = "deleteBatchesOlderThan") =>
        LET cutoff == IsoDate(now) - ret'.days
        IN  /\ \A i \in 1..Len(batches') : batches'[i].date >= cutoff
            /\ \A i \in 1..Len(batches) :
                   batches[i].date >= cutoff =>
                       \E j \in 1..Len(batches') : batches'[j] = batches[i]
            /\ ret'.deletedCount =
                   Cardinality({i \in 1..Len(batches) : batches[i].date < cutoff})
      ]_vars

\* the figures of the metrics object m are those of the stats record r
SameFigures(m, r) ==
    /\ m.date = r.date
    /\ m.totalSent = r.totalSent
    /\ m.totalReceived = r.totalReceived
    /\ m.confirmed = r.confirmed
    /\ m.notConfirmed = r.notConfirmed
    /\ m.questions = r.questions
    /\ m.other = r.other
    /\ m.pending = r.pending

AllZero(m) ==
    /\ m.totalSent = 0 /\ m.totalReceived = 0 /\ m.confirmed = 0
    /\ m.notConfirmed = 0 /\ m.questions = 0 /\ m.other = 0
    /\ m.pending = 0 /\ m.responseRate = Ratio(0, 1)

\* C11: getDashboardMetrics returns the figures of the DailyStats record
\* dated today if there is one, else those of the record with the greatest
\* date, and on an empty collection an object dated today with every count
\* and the response rate 0.
C11_MetricsOfTodayOrLatest ==
    [][(ret'.op = "getDashboardMetrics" /\ now' = now /\ dailyStats' = dailyStats) =>
        LET today == IsoDate(now)
            m == ret'.metrics
            todays == {i \in 1..Len(dailyStats) : dailyStats[i].date = today}
            latest == {i \in 1..Len(dailyStats) :
                          \A j \in 1..Len(dailyStats) :
                              dailyStats[j].date <= dailyStats[i].date}
            onEmpty == GetDashboardMetrics(<<>>, today)
        IN  /\ todays # {} => \A i \in todays : SameFigures(m, dailyStats[i])
            /\ (todays = {} /\ latest # {}) =>
                   \A i \in latest : SameFigures(m, dailyStats[i])
            /\ (todays = {} /\ latest = {}) => (m.date = today /\ AllZero(m))
            /\ onEmpty.date = today /\ AllZero(onEmpty)
      ]_vars

\* today has no record and the latest record is not the first of the map
C11_Witness ==
    /\ ret.op = "getDashboardMetrics"
    /\ ret.today = IsoDate(now)
    /\ GetByDate(dailyStats, ret.today) = None
    /\ ret.metrics.date # dailyStats[1].date
    /\ \A i \in 1..Len(dailyStats) : dailyStats[i].date <= ret.metrics.date

\* Math.round(n / d) for n >= 0, d > 0
RoundRatio(n, d) == (2 * n + d) \div (2 * d)

\* C12: getDashboardMetrics returns responseRate = round(totalReceived /
\* totalSent * 100), a whole percentage, when the selected record has
\* totalSent > 0, and 0 when totalSent = 0.
C12_ResponseRateRounded ==
    ret.op = "getDashboardMetrics" =>
        LET m == ret.metrics
        IN  IF m.totalSent > 0
            THEN m.responseRate =
                    Ratio(RoundRatio(m.totalReceived * 100, m.totalSent), 1)
            ELSE m.responseRate = Ratio(0, 1)

LookupOps == {"getCustomer", "getCustomerByPhone", "getBatch", "getDailyStats"}

\* no record of the collection the lookup r searched has the key of r
NoMatch(r) ==
    CASE r.op = "getCustomer" ->
            \A i \in 1..Len(customers) : customers[i].id # r.key
      [] r.op = "getCustomerByPhone" ->
            \A i \in 1..Len(customers) : customers[i].phone # r.key
      [] r.op = "getBatch" ->
            \A i \in 1..Len(batches) : batches[i].id # r.key
      [] r.op = "getDailyStats" ->
            \A i \in 1..Len(dailyStats) : dailyStats[i].date # r.key

\* C13: getCustomer, getCustomerByPhone, getBatch and getDailyStats with a
\* key that matches no stored record return undefined, and they leave the
\* three collections unchanged.
C13_MissingKeyGivesUndefined ==
    [][(ret'.op \in LookupOps /\ now' = now) =>
        /\ UNCHANGED store
        /\ NoMatch(ret') => ret'.result = None
      ]_vars

\* a phone number no customer has was looked up
C13_Witness ==
    /\ ret.op = "getCustomerByPhone"
    /\ NoMatch(ret)
    /\ ret.result = None
    /\ Len(customers) >= RosterSize

\* C14: for a positive seed the generator state lies in 1 .. 2147483646
\* after construction and after every draw, so every next() result
\* (state - 1) / 2147483646 lies in [0, 1).
C14_StateInRange ==
    /\ rng \in 1..(Modulus - 1)
    /\ ret.op = "next" => (0 <= ret.value /\ ret.value < NextDivisor)

\* draws from a generator whose seed is a multiple of the modulus
C14_Witness ==
    /\ seed > 0
    /\ JsRem(seed, Modulus) = 0
    /\ ret.op = "next"
    /\ ops >= 2

\* C15: nextInt(min, max) with min <= max returns r with min <= r <= max.
C15_NextIntInBounds ==
    ret.op = "nextInt" => (ret.min <= ret.result /\ ret.result <= ret.max)

\* nextInt returned the upper bound of a range of several values
C15_Witness ==
    /\ ret.op = "nextInt"
    /\ ret.min < ret.max
    /\ ret.result = ret.max

\* C16: generateMockData produces, for each of the daysOfHistory dates,
\* exactly one sent batch and at most one received batch, and the dates are
\* pairwise distinct, so that the dataset holds daysOfHistory sent batches.
C16_OneSentBatchPerDay ==
    \A g \in Generated :
        LET sent == {i \in 1..Len(g.batches) : g.batches[i].type = "sent"}
            received == {i \in 1..Len(g.batches) : g.batches[i].type = "received"}
        IN  /\ Cardinality(sent) = DaysOfHistory
            /\ \A i, j \in sent : g.batches[i].date = g.batches[j].date => i = j
            /\ \A i, j \in received : g.batches[i].date = g.batches[j].date => i = j
            /\ \A j \in received : \E i \in sent : g.batches[i].date = g.batches[j].date

\* C17: constructing the generator with a malformed generation parameter
\* fails: no dataset is built, the store holds no batches and no daily
\* stats.
C17_MalformedBuildsNothing ==
    ~ValidSeed(seed) => (batches = <<>> /\ dailyStats = <<>>)

IStorageOps ==
    {"getCustomer", "getCustomerByPhone", "createCustomer", "getBatch",
     "getBatches", "createBatch", "deleteBatchesOlderThan", "getDailyStats",
     "getDailyStatsRange", "createOrUpdateDailyStats", "getDashboardMetrics",
     "getChartData", "getCategoryData"}

\* C18: createStorage gives a DatabaseStorage for the modes DEV and PROD and
\* a MockupStorage for MOCKUP, and every operation called on a
\* DatabaseStorage ends in the not-implemented error.
C18_DatabaseNotImplemented ==
    /\ mode \in {"DEV", "PROD"} => CreateStorage(mode) = "DatabaseStorage"
    /\ mode = "MOCKUP" => CreateStorage(mode) = "MockupStorage"
    /\ (mode \in {"DEV", "PROD"} /\ ret.op # "constructor") =>
           /\ ret.op \in IStorageOps
           /\ ret.error = NotImplemented

\* a dashboard operation was called in PROD mode and threw
C18_Witness ==
    /\ mode = "PROD"
    /\ ret.op = "getChartData"
    /\ ret.error = NotImplemented

\* C19: deleteBatchesOlderThan(N) changes only the batch collection: the
\* daily-stats collection and the customer collection are the same before
\* and after the call.
C19_RetentionChangesOnlyBatches ==
    [][(ops' = ops + 1 /\ now' = now /\ ret'.op = "deleteBatchesOlderThan") =>
        /\ dailyStats' = dailyStats
        /\ customers' = customers
      ]_vars

\* a sweep removed batches of days whose daily stats are still stored
C19_Witness ==
    /\ ret.op = "deleteBatchesOlderThan"
    /\ ret.deletedCount > 0
    /\ \E i \in 1..Len(dailyStats) :
           \A j \in 1..Len(batches) : batches[j].date # dailyStats[i].date

\* C20: after the retention sweep deleteBatchesOlderThan(N) no DailyStats
\* record dated before the cutoff remains in the store.
C20_RetentionSweepsStats ==
    [][(ops' = ops + 1 /\ now' = now /\ ret'.op = "deleteBatchesOlderThan") =>
        \A i \in 1..Len(dailyStats') :
            dailyStats'[i].date >= CutoffStr(tz, now, ret'.days)
      ]_vars

\* C21: in every reachable state every DailyStats record has pending =
\* totalSent - totalReceived, totalReceived <= totalSent and confirmed +
\* notConfirmed + questions + other = totalReceived.
C21_StatsConsistentAlways ==
    \A i \in 1..Len(dailyStats) :
        LET r == dailyStats[i]
        IN  /\ r.pending = r.totalSent - r.totalReceived
            /\ r.totalReceived <= r.totalSent
            /\ CategorySum(r) = r.totalReceived

\* C22: in every reachable state no two distinct customers have the same
\* phone.
C22_PhoneUnique ==
    \A i, j \in 1..Len(customers) :
        customers[i].phone = customers[j].phone => i = j

Ids(m) == {m[i].id : i \in 1..Len(m)}

\* every id of map m that map n still has maps to the same record in n
SameWhereKept(m, n) ==
    \/ m = n
    \/ \A i \in 1..Len(m) : \A j \in 1..Len(n) : m[i].id = n[j].id => m[i] = n[j]

\* C23: no operation changes an existing Batch or Customer record: an id
\* present before and after an operation maps to the same record, and
\* createBatch and createCustomer add exactly one record under an id the
\* collection did not have.
C23_RecordsNeverUpdated ==
    [][/\ SameWhereKept(batches, batches')
       /\ SameWhereKept(customers, customers')
       /\ (ops' = ops + 1 /\ now' = now /\ ret'.op = "createBatch") =>
              /\ Len(batches') = Len(batches) + 1
              /\ ret'.batch.id \notin Ids(batches)
              /\ GetById(batches', ret'.batch.id) = ret'.batch
       /\ (ops' = ops + 1 /\ now' = now /\ ret'.op = "createCustomer") =>
              /\ Len(customers') = Len(customers) + 1
              /\ ret'.customer.id \notin Ids(customers)
              /\ GetById(customers', ret'.customer.id) = ret'.customer
      ]_vars

\* a second batch was created after a first one, which is still as it was
C23_Witness ==
    /\ ret.op = "createBatch"
    /\ ret.batch.id = RandomUUID(1)
    /\ GetById(batches, RandomUUID(0)) # None
    /\ GetById(batches, RandomUUID(0)).type = "sent"
    /\ GetById(batches, RandomUUID(0)).date # ret.batch.date

ReadOps ==
    {"getCustomer", "getCustomerByPhone", "getBatch", "getBatches",
     "getDailyStats", "getDailyStatsRange", "getDashboardMetrics",
     "getChartData", "getCategoryData"}

WriteOps ==
    {"createCustomer", "createBatch", "createOrUpdateDailyStats",
     "deleteBatchesOlderThan"}

\* C24: the nine read operations leave the customer, batch and daily-stats
\* collections unchanged, contents and order; after generation only
\* createCustomer, createBatch, createOrUpdateDailyStats and
\* deleteBatchesOlderThan change the store.
C24_ReadsChangeNothing ==
    [][/\ (ret'.op \in ReadOps /\ now' = now) => UNCHANGED store
       /\ store' # store => (ret'.op \in WriteOps /\ ops' = ops + 1 /\ now' = now)
      ]_vars

\* getBatches sorted all batches of a store whose own order is not by date
C24_Witness ==
    /\ ret.op = "getBatches"
    /\ ret.total = Len(batches)
    /\ Len(ret.batches) = DefaultLimit
    /\ \E i, j \in 1..Len(batches) : i < j /\ batches[i].date < batches[j].date
    /\ \A k \in 1..(Len(ret.batches) - 1) : ret.batches[k].date >= ret.batches[k + 1].date

\* C25: for every generated date the sent batch's createdAt is strictly
\* earlier than the createdAt of the received batch of the same date.
C25_SentBeforeReceived ==
    \A g \in Generated : \A i, j \in 1..Len(g.batches) :
        (/\ g.batches[i].type = "sent"
         /\ g.batches[j].type = "received"
         /\ g.batches[i].date = g.batches[j].date)
        => g.batches[i].createdAt < g.batches[j].createdAt

\* a date generated twice holds a sent batch and, nine hours later, its
\* received batch
C25_Witness ==
    /\ Len(dailyStats) < DaysOfHistory
    /\ \E i, j \in 1..Len(batches) :
           /\ batches[i].id = <<"sent", IsoDate(SetDateBack(tz, now, DstAgo))>>
           /\ batches[j].id = <<"received", batches[i].date>>
           /\ batches[j].createdAt = batches[i].createdAt + (ReceivedHour - SentHour)

\* C26: whatever the time of day of generation, every generated sent batch
\* is timestamped 09:00 of its own date and every generated received batch
\* 18:00 of its own date (read in UTC or in the process's zone).
C26_TimestampOnOwnDate ==
    \A g \in Generated : \A i \in 1..Len(g.batches) :
        LET b == g.batches[i]
            hour == IF b.type = "sent" THEN SentHour ELSE ReceivedHour
        IN  \/ b.createdAt = DateTime(b.date) + hour
            \/ LocalTime(tz, b.createdAt) = DateTime(b.date) + hour

\* C30: every count generateMockData produces is a non-negative integer:
\* totalResponses <= customerCount, pending >= 0, other >= 0; every sent
\* batch has the four category counts 0 and a customerCount within
\* customersPerDay, 150 .. 200.
C30_CountsNonNegative ==
    \A g \in Generated :
        /\ \A i \in 1..Len(g.batches) :
               LET b == g.batches[i]
               IN  /\ b.customerCount >= 0 /\ b.confirmed >= 0 /\ b.notConfirmed >= 0
                   /\ b.questions >= 0 /\ b.other >= 0
                   /\ b.type = "sent" =>
                          /\ CategorySum(b) = 0
                          /\ b.customerCount \in CustomersMin..CustomersMax
        /\ \A i \in 1..Len(g.dailyStats) :
               LET r == g.dailyStats[i]
               IN  /\ r.totalSent >= 0 /\ r.totalReceived >= 0 /\ r.pending >= 0
                   /\ r.confirmed >= 0 /\ r.notConfirmed >= 0
                   /\ r.questions >= 0 /\ r.other >= 0
                   /\ r.totalReceived <= r.totalSent
                   /\ r.other = r.totalReceived - r.confirmed - r.notConfirmed - r.questions

\* a day drew the largest customerCount and another the smallest
C30_Witness ==
    /\ \E i \in 1..Len(batches) :
           batches[i].type = "sent" /\ batches[i].customerCount = CustomersMax
    /\ \E i \in 1..Len(batches) :
           batches[i].type = "sent" /\ batches[i].customerCount = CustomersMin

\* the number of binary digits of n >= 0
RECURSIVE BitLength(_)
BitLength(n) == IF n = 0 THEN 0 ELSE 1 + BitLength(n \div 2)

\* (s * Multiplier) % Modulus by Schrage's decomposition, which never
\* leaves 32 bits: the exact value of the multiply-mod step
ExactStep(s) ==
    LET q == Modulus \div Multiplier
        r == Modulus % Multiplier
        t == Multiplier * (s % q) - r * (s \div q)
    IN  IF t < 0 THEN t + Modulus ELSE t

\* C27: in the multiply-mod step of next() the product state * 16807 is
\* below 2^53 for every reachable state (its factors have at most 53 binary
\* digits together), and the step yields exactly (state * 16807) mod
\* 2147483647.
C27_MultiplyModExact ==
    [][ops' = ops + 1 =>
        /\ rng \in 1..(Modulus - 1)
        /\ BitLength(rng) + BitLength(Multiplier) <= 53
        /\ SeedProduct(rng).hi \div 2^16 < 2^(53 - 32)
        /\ rng' = ExactStep(rng)
      ]_vars

\* the largest state, 2147483646, has been multiplied
C27_Witness ==
    /\ seed = Modulus - 1
    /\ ops >= 1
    /\ ret.op = "next"

\* C28: createOrUpdateDailyStats is an upsert keyed by date: the store holds
\* at most one DailyStats record per date; a call for a date already
\* present keeps the record's id and the number of records, a call for a
\* new date adds exactly one record, the records of every other date are
\* unchanged, and getDailyStats(date) returns the record the call returned.
C28_UpsertByDate ==
    /\ [](\A i, j \in 1..Len(dailyStats) :
              dailyStats[i].date = dailyStats[j].date => i = j)
    /\ [][(ops' = ops + 1 /\ now' = now /\ ret'.op = "createOrUpdateDailyStats") =>
            LET stats == ret'.stats
                old == {i \in 1..Len(dailyStats) : dailyStats[i].date = stats.date}
            IN  /\ old # {} =>
                       /\ Len(dailyStats') = Len(dailyStats)
                       /\ \A i \in old : stats.id = dailyStats[i].id
                /\ old = {} =>
                       /\ Len(dailyStats') = Len(dailyStats) + 1
                       /\ \A i \in 1..Len(dailyStats) : stats.id # dailyStats[i].id
                /\ \A i \in 1..Len(dailyStats) :
                       dailyStats[i].date # stats.date => dailyStats'[i] = dailyStats[i]
                /\ GetByDate(dailyStats', stats.date) = stats
          ]_vars

\* the record of a generated date was updated and kept its generated id
C28_Witness ==
    /\ ret.op = "createOrUpdateDailyStats"
    /\ ret.stats.id = <<"stats", ret.stats.date>>
    /\ ret.stats.totalSent = 5
    /\ ret.stats.totalReceived > 5
    /\ GetByDate(dailyStats, ret.stats.date) = ret.stats

\* the environment with LOG_LEVEL named
WithLogLevel(e, level) == Spread(e, [LOG_LEVEL |-> level])

\* C29: LOG_LEVEL is optional in every mode: with MODE=PROD, settings that
\* are valid once a log level is named, and LOG_LEVEL unset, the first
\* getEnvironmentConfig call validates the configuration and returns it, the
\* process does not exit, and later calls return the same cached
\* configuration.
C29_LogLevelOptionalInProd ==
    ( /\ mode = "PROD"
      /\ "LOG_LEVEL" \notin DOMAIN processEnv
      /\ EnvironmentConfigSchema(BuildRawConfig(WithLogLevel(processEnv, "warn")))
      /\ ret.op \in {"getEnvironmentConfig", "process.exit"} )
    => /\ ~exited
       /\ cachedConfig = BuildRawConfig(processEnv)
       /\ ret.op = "getEnvironmentConfig"
       /\ ret.config = EnvironmentConfigOf(cachedConfig)
====
